---- MODULE Spec2Model ----
(***************************************************************************)
(* A model of weed/filesys/file.go: the File node of the FUSE mount        *)
(* (entry, chunk list, visible-interval cache, open count, cached reader,  *)
(* dirty flag) and its operations.  Every handler is one atomic action;   *)
(* the operations that write the entry, the view cache and the reader are  *)
(* also given statement by statement, run by two processes.                *)
(* The remote metadata service is an external collaborator: what a lookup  *)
(* or an update answers is an input of the action that calls it.           *)
(***************************************************************************)
EXTENDS Integers, Sequences, FiniteSets, TLC

\* ------------------------------------------------------------------ bounds
\* Byte offsets range over 0..MaxPos.
MaxPos == 2
\* File keys of chunks range over 1..MaxKeys; a file key names one chunk.
MaxKeys == 2
\* The same, where only setEntry and addChunks run.
MaxAppendKeys == 3
\* Largest open count reached.
MaxOpen == 1

\* const blockSize = 512
blockSize == 512

VARIABLES
    entry,            \* file.entry: NoEntry (nil) or an Entry record
    entryViewCache,   \* file.entryViewCache: sequence of visible intervals
    isOpen,           \* file.isOpen
    reader,           \* file.reader: "nil" or "reader" (an io.Closer)
    dirtyMetadata,    \* file.dirtyMetadata
    metaCache,        \* wfs.metaCache: the local mirror of this path's entry
    last,             \* the last call: operation, return value, calls made to
                      \* the collaborators, attributes written by Attr
    fsNodeCache,      \* wfs.fsNodeCache resolves the node's path
    handles,          \* wfs.handles holds the file handle of the path
    entryLock,        \* file.entryLock: 0 when free, else the process writing
    fhLock,           \* the file handle's lock: 0 when free, else its holder
    pc,               \* where each process stands in the operation it runs
    locals,           \* the local variables of that operation
    closed            \* Close calls received by the reader that was cached

\* What the mount keeps about the node, and the state of the processes that
\* run operations step by step.
mount == <<fsNodeCache, handles>>
race == <<entryLock, fhLock, pc, locals, closed>>

vars == <<entry, entryViewCache, isOpen, reader, dirtyMetadata, metaCache, last,
          fsNodeCache, handles, entryLock, fhLock, pc, locals, closed>>

\* The processes that call into the node.
Procs == {1, 2}
NoLocals == [none |-> TRUE]
\* No process is inside an operation.
Quiet ==
    /\ entryLock = 0
    /\ fhLock = 0
    /\ pc = [p \in Procs |-> "idle"]
    /\ locals = [p \in Procs |-> NoLocals]
    /\ closed = 0

\* ------------------------------------------------------------------ values
NoEntry == [nil |-> TRUE]
NoAttr == [zero |-> TRUE]
NoReq == [none |-> TRUE]

\* The record of one call: the operation and its request, what it returned,
\* the calls it made to the collaborators with their answers, the attributes
\* Attr wrote, the lines it logged about chunks.
Call(op, req, ret, calls, attr) ==
    [op |-> op, req |-> req, ret |-> ret, calls |-> calls, attr |-> attr,
     log |-> <<>>]

\* The logical write time of the chunk of file key k: key 1 was written last,
\* the others at one time, so that the file key orders them.
ChunkMtime(k) == IF k = 1 THEN 2 ELSE 1

\* The chunks of file keys 1..keys inside 0..MaxPos.
Chunks(keys) ==
    {c \in [FileKey : 1..keys, Mtime : {1, 2}, Offset : 0..(MaxPos - 1),
            Size : 1..MaxPos] :
        c.Mtime = ChunkMtime(c.FileKey) /\ c.Offset + c.Size <= MaxPos}

MkEntry(chunks, size, hard) ==
    [Chunks |-> chunks, FileSize |-> size, FileMode |-> 0, Uid |-> 0, Gid |-> 0,
     Crtime |-> 0, Mtime |-> 0, Extended |-> {}, HardLinkId |-> hard]

Keys(chunks) == {chunks[i].FileKey : i \in 1..Len(chunks)}

\* Sequences of at most n chunks of pool with pairwise distinct file keys.
RECURSIVE BatchesOf(_, _)
BatchesOf(pool, n) ==
    IF n = 0 THEN {<<>>}
    ELSE LET shorter == BatchesOf(pool, n - 1)
             full == {b \in shorter : Len(b) = n - 1}
         IN shorter \cup
            {Append(p[1], p[2]) :
                p \in {q \in full \X pool : q[2].FileKey \notin Keys(q[1])}}

\* ------------------------------------------------------------------ chunk order
lessThan(a, b) ==
    IF a.Mtime = b.Mtime THEN a.FileKey < b.FileKey ELSE a.Mtime < b.Mtime

RECURSIVE SortInsert(_, _)
SortInsert(c, s) ==
    IF s = <<>> THEN <<c>>
    ELSE IF lessThan(c, Head(s)) THEN <<c>> \o s
    ELSE <<Head(s)>> \o SortInsert(c, Tail(s))

\* sort.Slice(chunks, lessThan): ascending, oldest first.
RECURSIVE SortChunks(_)
SortChunks(s) ==
    IF s = <<>> THEN <<>> ELSE SortInsert(Head(s), SortChunks(Tail(s)))

\* ------------------------------------------------------------------ filer package
\* One visible interval per merged chunk; the merged chunk takes over the
\* range it overlaps, the intervals it cuts keep what is left and right of it.
NewVisible(chunk) ==
    [start |-> chunk.Offset, stop |-> chunk.Offset + chunk.Size,
     fileId |-> chunk.FileKey, modifiedTime |-> chunk.Mtime]

RECURSIVE CutVisibles(_, _, _)
CutVisibles(visibles, start, stop) ==
    IF visibles = <<>> THEN <<>>
    ELSE LET v == Head(visibles)
             left == IF v.start < start /\ start < v.stop
                     THEN <<[v EXCEPT !.stop = start]>> ELSE <<>>
             right == IF v.start < stop /\ stop < v.stop
                      THEN <<[v EXCEPT !.start = stop]>> ELSE <<>>
             whole == IF stop <= v.start \/ v.stop <= start THEN <<v>> ELSE <<>>
         IN left \o right \o whole \o CutVisibles(Tail(visibles), start, stop)

RECURSIVE InsertVisible(_, _)
InsertVisible(visibles, newV) ==
    IF visibles = <<>> THEN <<newV>>
    ELSE LET n == Len(visibles)
         IN IF newV.start < visibles[n].start
            THEN Append(InsertVisible(SubSeq(visibles, 1, n - 1), newV), visibles[n])
            ELSE Append(visibles, newV)

MergeIntoVisibles(visibles, chunk) ==
    LET newV == NewVisible(chunk)
    IN IF visibles = <<>> \/ visibles[Len(visibles)].stop <= chunk.Offset
       THEN Append(visibles, newV)
       ELSE InsertVisible(CutVisibles(visibles, newV.start, newV.stop), newV)

RECURSIVE MergeAll(_, _)
MergeAll(visibles, chunks) ==
    IF chunks = <<>> THEN visibles
    ELSE MergeAll(MergeIntoVisibles(visibles, Head(chunks)), Tail(chunks))

NonOverlappingVisibleIntervals(chunks) == MergeAll(<<>>, SortChunks(chunks))

RECURSIVE TotalSize(_)
TotalSize(chunks) ==
    IF chunks = <<>> THEN 0
    ELSE LET t == Head(chunks).Offset + Head(chunks).Size
             r == TotalSize(Tail(chunks))
         IN IF t > r THEN t ELSE r

\* filer.FileSize: the larger of the chunks' extent and the recorded size.
FileSize(e) ==
    IF TotalSize(e.Chunks) > e.FileSize THEN TotalSize(e.Chunks) ELSE e.FileSize

\* ------------------------------------------------------------------ collaborators
\* A call to a collaborator: what was asked, and the answer where there is one.
LookupCall(lk) == [call |-> "LookupEntry", entry |-> lk.entry, err |-> lk.err]
UpdateCall(e, upd) == [call |-> "UpdateEntry", entry |-> e, err |-> upd]
MirrorCall(e) == [call |-> "metaCache.UpdateEntry", entry |-> e, err |-> "nil"]
CloseCall == [call |-> "reader.Close", entry |-> NoEntry, err |-> "nil"]

\* What wfs.maybeLoadEntry can answer: an entry, no entry, or an error.
LookupErrors == {"ENOENT", "EIO"}
LookupResults(entries) ==
    {[entry |-> e, err |-> "nil"] : e \in entries \cup {NoEntry}}
        \cup {[entry |-> NoEntry, err |-> x] : x \in LookupErrors}

\* What the remote UpdateEntry can answer.
UpdateResults == {"ok", "fail"}

Called(l, name) == \E i \in 1..Len(l.calls) : l.calls[i].call = name

\* ------------------------------------------------------------------ node helpers
\* The node's entry, view cache and reader, with the calls made so far to
\* the reader.
Node(e, cache, r, calls) ==
    [entry |-> e, cache |-> cache, reader |-> r, calls |-> calls]

\* setReader leaving the cached reader in place after closing it.
setReader_KeepsReader(cur, new) ==
    [reader |-> cur, calls |-> IF cur # "nil" THEN <<CloseCall>> ELSE <<>>]

\* setReader over the cached reader cur: cur, a Closer, is closed when there
\* is one, and new is cached.
setReader(cur, new) ==
    [reader |-> new, calls |-> IF cur # "nil" THEN <<CloseCall>> ELSE <<>>]

\* setEntry
setEntry(e) ==
    LET r == setReader(reader, "nil")
    IN Node(e, NonOverlappingVisibleIntervals(e.Chunks), r.reader, r.calls)

\* clearEntry
clearEntry ==
    LET r == setReader(reader, "nil") IN Node(NoEntry, <<>>, r.reader, r.calls)

SetNode(n) ==
    /\ entry' = n.entry
    /\ entryViewCache' = n.cache
    /\ reader' = n.reader

NoLoad == [entry |-> entry, err |-> "nil", calls |-> <<>>, set |-> FALSE]

\* File.maybeLoadEntry: the entry the caller works on, the error, the lookups
\* made, and whether setEntry installed the looked-up entry.
maybeLoadEntry(lk) ==
    IF isOpen > 0 THEN NoLoad
    ELSE IF entry # NoEntry /\ Len(entry.HardLinkId) = 0 THEN NoLoad
    ELSE IF lk.err # "nil"
         THEN [entry |-> lk.entry, err |-> lk.err, calls |-> <<LookupCall(lk)>>,
               set |-> FALSE]
    ELSE [entry |-> lk.entry, err |-> "nil", calls |-> <<LookupCall(lk)>>,
          set |-> lk.entry # NoEntry]

\* The node once maybeLoadEntry has returned.
Loaded(m) ==
    IF m.set THEN setEntry(m.entry) ELSE Node(entry, entryViewCache, reader, <<>>)

\* saveEntry writing the mirror whatever the remote call answered.
saveEntry_MirrorAlways(e, upd) ==
    IF e = NoEntry THEN [ret |-> "panic", calls |-> <<>>, mirror |-> metaCache]
    ELSE [ret |-> IF upd = "fail" THEN "EIO" ELSE "nil",
          calls |-> <<UpdateCall(e, upd), MirrorCall(e)>>, mirror |-> e]

\* File.saveEntry: the remote UpdateEntry, then the mirror on success.
saveEntry(e, upd) ==
    IF e = NoEntry THEN [ret |-> "panic", calls |-> <<>>, mirror |-> metaCache]
    ELSE IF upd = "fail"
         THEN [ret |-> "EIO", calls |-> <<UpdateCall(e, upd)>>, mirror |-> metaCache]
    ELSE [ret |-> "nil", calls |-> <<UpdateCall(e, upd), MirrorCall(e)>>, mirror |-> e]

\* ------------------------------------------------------------------ Attr
\* attr.Size without the isOpen branch.
AttrSize_Persisted(e) == FileSize(e)

\* attr.Size: the persisted size, or the locally tracked one while open.
AttrSize(e) == IF isOpen > 0 THEN e.FileSize ELSE FileSize(e)

\* Attr without the "entry == nil" return.
AttrReply_ZeroValued(e) ==
    IF e = NoEntry THEN [ret |-> "nil", attr |-> NoAttr]
    ELSE [ret |-> "nil",
          attr |-> [Mode |-> e.FileMode, Size |-> AttrSize(e),
                    Crtime |-> e.Crtime, Mtime |-> e.Mtime,
                    Gid |-> e.Gid, Uid |-> e.Uid,
                    Blocks |-> (AttrSize(e) \div blockSize) + 1]]

\* The tail of Attr: not-found for a nil entry, else the attributes.
AttrReply(e) ==
    IF e = NoEntry THEN [ret |-> "ENOENT", attr |-> NoAttr]
    ELSE [ret |-> "nil",
          attr |-> [Mode |-> e.FileMode, Size |-> AttrSize(e),
                    Crtime |-> e.Crtime, Mtime |-> e.Mtime,
                    Gid |-> e.Gid, Uid |-> e.Uid,
                    Blocks |-> (AttrSize(e) \div blockSize) + 1]]

Attr(lk) ==
    LET m == IF isOpen <= 0 \/ entry = NoEntry THEN maybeLoadEntry(lk) ELSE NoLoad
        reply == IF m.err # "nil" THEN [ret |-> m.err, attr |-> NoAttr]
                 ELSE AttrReply(m.entry)
    IN /\ SetNode(Loaded(m))
       /\ last' = Call("Attr", NoReq, reply.ret, m.calls \o Loaded(m).calls, reply.attr)
       /\ UNCHANGED <<isOpen, dirtyMetadata, metaCache>>
       /\ UNCHANGED <<mount, race>>

\* ------------------------------------------------------------------ Open, Release
Open ==
    /\ isOpen < MaxOpen
    /\ isOpen' = isOpen + 1
    /\ last' = Call("Open", NoReq, "nil", <<>>, NoAttr)
    /\ UNCHANGED <<entry, entryViewCache, reader, dirtyMetadata, metaCache>>
    /\ handles' = TRUE
    /\ UNCHANGED <<fsNodeCache, race>>

\* The handle's release: the open count drops, and the deferred flush of a
\* dirty node goes out once no handle is left.
Release(upd) ==
    /\ isOpen > 0
    /\ isOpen' = isOpen - 1
    /\ LET flush == isOpen - 1 = 0 /\ dirtyMetadata /\ entry # NoEntry
           saved == IF flush THEN saveEntry(entry, upd)
                    ELSE [ret |-> "nil", calls |-> <<>>, mirror |-> metaCache]
       IN /\ metaCache' = saved.mirror
          /\ last' = Call("Release", NoReq, saved.ret, saved.calls, NoAttr)
    /\ UNCHANGED <<entry, entryViewCache, reader, dirtyMetadata>>
    /\ handles' = (isOpen - 1 > 0)
    /\ UNCHANGED <<fsNodeCache, race>>

\* The read path caches a reader over the current view when none is cached.
CreateReader ==
    /\ entry # NoEntry
    /\ reader = "nil"
    /\ reader' = "reader"
    /\ last' = Call("CreateReader", NoReq, "nil", <<>>, NoAttr)
    /\ UNCHANGED <<entry, entryViewCache, isOpen, dirtyMetadata, metaCache>>
    /\ UNCHANGED <<mount, race>>

\* ------------------------------------------------------------------ Forget
\* fsNodeCache.DeleteFsNode: the path no longer resolves to a node.
DeleteFsNode(cached) == FALSE

\* wfs.ReleaseHandle from Forget: the handle resources go once no open
\* references them.
ReleaseHandle(held, open) == held /\ open > 0

DeleteCall == [call |-> "fsNodeCache.DeleteFsNode", entry |-> NoEntry, err |-> "nil"]
ReleaseCall == [call |-> "wfs.ReleaseHandle", entry |-> NoEntry, err |-> "nil"]

Forget ==
    LET r == setReader(reader, "nil")
    IN /\ fsNodeCache' = DeleteFsNode(fsNodeCache)
       /\ handles' = ReleaseHandle(handles, isOpen)
       /\ reader' = r.reader
       /\ last' = Call("Forget", NoReq, "nil", <<DeleteCall, ReleaseCall>> \o r.calls,
                        NoAttr)
       /\ UNCHANGED <<entry, entryViewCache, isOpen, dirtyMetadata, metaCache, race>>

\* ------------------------------------------------------------------ Setattr
AttrBits == {"Size", "Mode", "Uid", "Gid", "Crtime", "Mtime"}

\* The truncation loop without "chunk.Size = uint64(int64Size)".
TruncateChunks_SizeKept(chunks, size) ==
    LET Kept(c) == c.Offset + c.Size > size /\ size - c.Offset > 0
    IN SelectSeq(chunks, Kept)

\* Truncation loop of Setattr over entry.Chunks.
TruncateChunks(chunks, size) ==
    LET Kept(c) == c.Offset + c.Size > size /\ size - c.Offset > 0
        kept == SelectSeq(chunks, Kept)
    IN [i \in 1..Len(kept) |-> [kept[i] EXCEPT !.Size = size - kept[i].Offset]]

\* What the truncation loop logs: a line for each chunk it shrinks or drops.
TruncateLog(chunks, size) ==
    LET Cut(c) == c.Offset + c.Size > size
        cut == SelectSeq(chunks, Cut)
    IN [i \in 1..Len(cut) |->
            IF size - cut[i].Offset > 0
            THEN [line |-> "truncated chunk", chunk |-> cut[i].FileKey,
                  from |-> cut[i].Size, to |-> size - cut[i].Offset]
            ELSE [line |-> "truncated whole chunk", chunk |-> cut[i].FileKey,
                  from |-> cut[i].Size, to |-> 0]]

\* The log of the req.Valid.Size() branch.
SetattrLog(e, req) ==
    IF "Size" \in req.Valid /\ req.Size < FileSize(e)
    THEN TruncateLog(e.Chunks, req.Size) ELSE <<>>

\* The size branch run as a truncation whatever the size asked for.
SetattrSize_AlwaysTruncates(n, req) ==
    IF "Size" \notin req.Valid THEN n
    ELSE LET e == n.entry
             cut == TruncateChunks(e.Chunks, req.Size)
             r == setReader(n.reader, "nil")
         IN Node([e EXCEPT !.Chunks = cut, !.FileSize = req.Size],
                 NonOverlappingVisibleIntervals(cut), r.reader, n.calls \o r.calls)

\* The req.Valid.Size() branch on the node: chunk list, view cache, reader, size.
SetattrSize(n, req) ==
    IF "Size" \notin req.Valid THEN n
    ELSE LET e == n.entry
             cut == TruncateChunks(e.Chunks, req.Size)
             r == setReader(n.reader, "nil")
         IN IF req.Size < FileSize(e)
            THEN Node([e EXCEPT !.Chunks = cut, !.FileSize = req.Size],
                      NonOverlappingVisibleIntervals(cut), r.reader, n.calls \o r.calls)
            ELSE Node([e EXCEPT !.FileSize = req.Size], n.cache, n.reader, n.calls)

\* The mode, uid, gid, crtime and mtime branches.
SetattrAttributes(e, req) ==
    [e EXCEPT !.FileMode = IF "Mode" \in req.Valid THEN req.Mode ELSE @,
              !.Uid = IF "Uid" \in req.Valid THEN req.Uid ELSE @,
              !.Gid = IF "Gid" \in req.Valid THEN req.Gid ELSE @,
              !.Crtime = IF "Crtime" \in req.Valid THEN req.Crtime ELSE @,
              !.Mtime = IF "Mtime" \in req.Valid THEN req.Mtime ELSE @]

\* file.dirtyMetadata after the branches.
\* The dirty flag as if each Setattr set it afresh.
SetattrDirty_Fresh(dirty, req) == req.Valid \cap AttrBits # {}

SetattrDirty(dirty, req) == dirty \/ req.Valid \cap AttrBits # {}

\* Setattr without the "file.isOpen > 0" return.
SetattrSaves_Always(open, dirty) == dirty

\* Whether Setattr goes on to saveEntry.
SetattrSaves(open, dirty) == ~(open > 0) /\ dirty

Setattr(req, lk, upd) ==
    LET m == maybeLoadEntry(lk)
        n0 == Loaded(m)
        quiet == [ret |-> "nil", calls |-> <<>>, mirror |-> metaCache]
    IN IF m.err # "nil"
       THEN /\ SetNode(n0)
            /\ last' = Call("Setattr", req, m.err, m.calls \o n0.calls, NoAttr)
            /\ UNCHANGED <<isOpen, dirtyMetadata, metaCache>>
            /\ UNCHANGED <<mount, race>>
       ELSE IF m.entry = NoEntry
       THEN \* a nil entry: the first branch taken dereferences it
            LET saved == IF req.Valid \cap AttrBits # {}
                         THEN [ret |-> "panic", calls |-> <<>>, mirror |-> metaCache]
                         ELSE IF SetattrSaves(isOpen, dirtyMetadata)
                         THEN saveEntry(NoEntry, upd)
                         ELSE quiet
            IN /\ SetNode(n0)
               /\ last' = Call("Setattr", req, saved.ret,
                                m.calls \o n0.calls \o saved.calls, NoAttr)
               /\ UNCHANGED <<isOpen, dirtyMetadata, metaCache>>
               /\ UNCHANGED <<mount, race>>
       ELSE LET n1 == SetattrSize(n0, req)
                e2 == SetattrAttributes(n1.entry, req)
                dirty == SetattrDirty(dirtyMetadata, req)
                saved == IF SetattrSaves(isOpen, dirty) THEN saveEntry(e2, upd)
                         ELSE quiet
            IN /\ SetNode(Node(e2, n1.cache, n1.reader, n1.calls))
               /\ dirtyMetadata' = dirty
               /\ metaCache' = saved.mirror
               /\ last' = [Call("Setattr", req, saved.ret,
                                m.calls \o n1.calls \o saved.calls, NoAttr)
                                EXCEPT !.log = SetattrLog(n0.entry, req)]
               /\ UNCHANGED isOpen
               /\ UNCHANGED <<mount, race>>

\* ------------------------------------------------------------------ xattrs
XattrNames == {"user.a"}
XattrValues == {1}

\* setxattr: the named attribute takes the request's value.
setxattr(e, req) ==
    IF e = NoEntry THEN [err |-> "EIO", entry |-> e]
    ELSE [err |-> "nil",
          entry |-> [e EXCEPT !.Extended =
                        {x \in @ : x.name # req.Name}
                            \cup {[name |-> req.Name, value |-> req.Xattr]}]]

\* removexattr: the named attribute is deleted; it must be there.
removexattr(e, req) ==
    IF e = NoEntry THEN [err |-> "ENOATTR", entry |-> e]
    ELSE IF \A x \in e.Extended : x.name # req.Name
         THEN [err |-> "ENOATTR", entry |-> e]
    ELSE [err |-> "nil",
          entry |-> [e EXCEPT !.Extended = {x \in @ : x.name # req.Name}]]

\* getxattr
getxattr(e, req) ==
    IF e = NoEntry THEN "EIO"
    ELSE IF \A x \in e.Extended : x.name # req.Name THEN "ENOATTR"
    ELSE "nil"

\* listxattr
listxattr(e) == IF e = NoEntry THEN "EIO" ELSE "nil"

\* "return file.saveEntry(entry)" of Setxattr and Removexattr.
XattrSave(e, upd) == saveEntry(e, upd)

\* The common shape of Setxattr and Removexattr: m is what maybeLoadEntry
\* gave, c what the mutation of m.entry gave; then the save.
XattrMutation(op, req, m, c, upd) ==
    LET n0 == Loaded(m)
    IN IF m.err # "nil" \/ c.err # "nil"
       THEN /\ SetNode(n0)
            /\ last' = Call(op, req, IF m.err # "nil" THEN m.err ELSE c.err,
                             m.calls \o n0.calls, NoAttr)
            /\ UNCHANGED <<isOpen, dirtyMetadata, metaCache>>
            /\ UNCHANGED <<mount, race>>
       ELSE LET saved == XattrSave(c.entry, upd)
            IN /\ SetNode(Node(c.entry, n0.cache, n0.reader, n0.calls))
               /\ metaCache' = saved.mirror
               /\ last' = Call(op, req, saved.ret, m.calls \o n0.calls \o saved.calls,
                                NoAttr)
               /\ UNCHANGED <<isOpen, dirtyMetadata>>
               /\ UNCHANGED <<mount, race>>

Setxattr(req, lk, upd) ==
    LET m == maybeLoadEntry(lk)
    IN XattrMutation("Setxattr", req, m, setxattr(m.entry, req), upd)

Removexattr(req, lk, upd) ==
    LET m == maybeLoadEntry(lk)
    IN XattrMutation("Removexattr", req, m, removexattr(m.entry, req), upd)

XattrQuery(op, req, m, answer) ==
    /\ SetNode(Loaded(m))
    /\ last' = Call(op, req, IF m.err # "nil" THEN m.err ELSE answer,
                     m.calls \o Loaded(m).calls, NoAttr)
    /\ UNCHANGED <<isOpen, dirtyMetadata, metaCache>>
    /\ UNCHANGED <<mount, race>>

Getxattr(req, lk) ==
    LET m == maybeLoadEntry(lk)
    IN XattrQuery("Getxattr", req, m, getxattr(m.entry, req))

Listxattr(lk) ==
    LET m == maybeLoadEntry(lk)
    IN XattrQuery("Listxattr", NoReq, m, listxattr(m.entry))

\* ------------------------------------------------------------------ addChunks
\* "find the earliest incoming chunk": the loop over newChunks[1:].
RECURSIVE EarliestFrom(_, _)
EarliestFrom(earliestChunk, rest) ==
    IF rest = <<>> THEN earliestChunk
    ELSE EarliestFrom(IF lessThan(earliestChunk, Head(rest)) THEN Head(rest)
                      ELSE earliestChunk,
                      Tail(rest))

EarliestChunk(newChunks) == EarliestFrom(Head(newChunks), Tail(newChunks))

\* addChunks without the out-of-order pick.
PickOutOfOrder_None(earliestChunk, existing) == <<>>

\* addChunks picking every existing chunk.
PickOutOfOrder_All(earliestChunk, existing) == existing

\* "pick out-of-order chunks from existing chunks"
PickOutOfOrder(earliestChunk, existing) ==
    LET Later(c) == lessThan(earliestChunk, c) IN SelectSeq(existing, Later)

\* newChunks as the final append reads it.  chunks starts as the same slice;
\* when its capacity holds the picked chunks too, append and sort.Slice work
\* in newChunks' own array, so newChunks is the head of the sorted slice.
NewChunksAfterSort(newChunks, cap, sorted) ==
    IF cap >= Len(sorted) THEN SubSeq(sorted, 1, Len(newChunks)) ELSE newChunks

\* An incoming batch: the chunks and the capacity of the slice holding them.
addChunks(batch) ==
    LET newChunks == batch.chunks
        earliestChunk == EarliestChunk(newChunks)
        chunks == SortChunks(newChunks \o PickOutOfOrder(earliestChunk, entry.Chunks))
        appended == NewChunksAfterSort(newChunks, batch.cap, chunks)
        r == setReader(reader, "nil")
    IN Node([entry EXCEPT !.Chunks = @ \o appended],
            MergeAll(entryViewCache, chunks), r.reader, r.calls)

AddChunks(batch) ==
    /\ IF batch.chunks = <<>>
       THEN \* newChunks[0] of an empty slice: index out of range
            /\ last' = Call("addChunks", batch, "panic", <<>>, NoAttr)
            /\ UNCHANGED <<entry, entryViewCache, reader>>
       ELSE IF entry = NoEntry
       THEN /\ last' = Call("addChunks", batch, "nil", <<>>, NoAttr)
            /\ UNCHANGED <<entry, entryViewCache, reader>>
       ELSE /\ last' = Call("addChunks", batch, "nil", addChunks(batch).calls, NoAttr)
            /\ SetNode(addChunks(batch))
    /\ UNCHANGED <<isOpen, dirtyMetadata, metaCache>>
    /\ UNCHANGED <<mount, race>>

\* ------------------------------------------------------------------ setEntry, clearEntry
SetEntry(e) ==
    /\ SetNode(setEntry(e))
    /\ last' = Call("setEntry", NoReq, "nil", setEntry(e).calls, NoAttr)
    /\ UNCHANGED <<isOpen, dirtyMetadata, metaCache>>
    /\ UNCHANGED <<mount, race>>

ClearEntry ==
    /\ SetNode(clearEntry)
    /\ last' = Call("clearEntry", NoReq, "nil", clearEntry.calls, NoAttr)
    /\ UNCHANGED <<isOpen, dirtyMetadata, metaCache>>
    /\ UNCHANGED <<mount, race>>

\* ------------------------------------------------------------------ inputs
HardLinkIds == {<<>>, <<1>>}

ValidSets == {{}, AttrBits} \cup {{b} : b \in AttrBits}

\* Requests: a size where the size is valid; mode 1 over the entries' mode 0.
SetattrRequests(valids, sizes) ==
    {r \in [Valid : valids, Size : sizes, Mode : {1}, Uid : {0}, Gid : {0},
            Crtime : {0}, Mtime : {0}] :
        "Size" \in r.Valid \/ r.Size = 0}

\* The remote update answers that matter: one when no save can follow.
Outcomes(saves) == IF saves THEN UpdateResults ELSE {"ok"}

XattrRequests == [Name : XattrNames, Xattr : XattrValues]

\* Chunks not yet in the entry's list: a file key is handed out once.
Fresh(pool) ==
    IF entry = NoEntry THEN pool
    ELSE {c \in pool : c.FileKey \notin Keys(entry.Chunks)}

\* Batches over pool: no chunk, one or a pair; each comes in a slice with no
\* spare capacity or with room for every chunk there is.
Batches(pool) ==
    {[chunks |-> b, cap |-> Len(b) + spare] :
        b \in BatchesOf(Fresh(pool), 2), spare \in {0, Cardinality(pool)}}

\* The lookup answers that matter: one when maybeLoadEntry will not ask.
Answers(entries) ==
    IF maybeLoadEntry([entry |-> NoEntry, err |-> "nil"]).calls = <<>>
    THEN {[entry |-> NoEntry, err |-> "nil"]}
    ELSE LookupResults(entries)

Init ==
    /\ entry = NoEntry
    /\ entryViewCache = <<>>
    /\ isOpen = 0
    /\ reader = "nil"
    /\ dirtyMetadata = FALSE
    /\ metaCache = NoEntry
    /\ last = Call("init", NoReq, "nil", <<>>, NoAttr)
    /\ fsNodeCache = TRUE
    /\ handles = FALSE
    /\ Quiet

\* ------------------------------------------------------------------ the append view
\* setEntry and addChunks alone, over MaxAppendKeys chunks.
AppendEntries == {MkEntry(b, 0, <<>>) : b \in BatchesOf(Chunks(MaxAppendKeys), 1)}

NextAppend ==
    \/ \E e \in AppendEntries : SetEntry(e)
    \/ \E b \in Batches(Chunks(MaxAppendKeys)) : AddChunks(b)

SpecAppend == Init /\ [][NextAppend]_vars

\* ------------------------------------------------------------------ the chunk view
\* The chunk list under an open handle: setEntry, addChunks, truncation.
ChunkEntries ==
    {MkEntry(b, s, <<>>) : b \in BatchesOf(Chunks(MaxKeys), 1), s \in {0, MaxPos}}

InitChunks ==
    /\ entry = NoEntry
    /\ entryViewCache = <<>>
    /\ isOpen = 1
    /\ reader = "nil"
    /\ dirtyMetadata = FALSE
    /\ metaCache = NoEntry
    /\ last = Call("Open", NoReq, "nil", <<>>, NoAttr)
    /\ fsNodeCache = TRUE
    /\ handles = TRUE
    /\ Quiet

NextChunks ==
    \/ \E e \in ChunkEntries : SetEntry(e)
    \/ \E b \in Batches(Chunks(MaxKeys)) : AddChunks(b)
    \/ \E req \in SetattrRequests({{"Size"}}, 0..MaxPos), lk \in Answers({}),
            upd \in Outcomes(FALSE) :
            Setattr(req, lk, upd)
    \/ ClearEntry
    \/ CreateReader

SpecChunks == InitChunks /\ [][NextChunks]_vars

\* ------------------------------------------------------------------ the remote entries
\* What the remote service holds for the path: one chunk or none, a recorded
\* size of 0, with or without a hard-link id.
MetaChunks == {c \in Chunks(1) : c.Offset = 0 /\ c.Size = MaxPos}

RemoteEntries ==
    {MkEntry(b, 0, h) : b \in BatchesOf(MetaChunks, 1), h \in HardLinkIds}

\* ------------------------------------------------------------------ the flush view
\* Setattr and the flush protocol around it.
Next ==
    \/ \E req \in SetattrRequests(ValidSets, {0, MaxPos}), lk \in Answers(RemoteEntries) :
        \E upd \in Outcomes(SetattrSaves(isOpen, SetattrDirty(dirtyMetadata, req))) :
            Setattr(req, lk, upd)
    \/ \E b \in Batches(MetaChunks) : AddChunks(b)
    \/ ClearEntry
    \/ Open
    \/ \E upd \in Outcomes(isOpen = 1 /\ dirtyMetadata) : Release(upd)

Spec == Init /\ [][Next]_vars

\* ------------------------------------------------------------------ the xattr view
\* The extended-attribute handlers, with a Setattr of the mode beside them.
NextXattr ==
    \/ \E req \in XattrRequests, lk \in Answers(RemoteEntries), upd \in UpdateResults :
            Setxattr(req, lk, upd)
    \/ \E req \in XattrRequests, lk \in Answers(RemoteEntries), upd \in UpdateResults :
            Removexattr(req, lk, upd)
    \/ \E req \in XattrRequests, lk \in Answers(RemoteEntries) : Getxattr(req, lk)
    \/ \E lk \in Answers(RemoteEntries) : Listxattr(lk)
    \/ \E req \in SetattrRequests({{"Mode"}}, {0}), lk \in Answers(RemoteEntries) :
        \E upd \in Outcomes(isOpen <= 0) : Setattr(req, lk, upd)
    \/ ClearEntry
    \/ Open
    \/ \E upd \in Outcomes(isOpen = 1 /\ dirtyMetadata) : Release(upd)

SpecXattr == Init /\ [][NextXattr]_vars

\* ------------------------------------------------------------------ the attribute view
\* Attr, with the operations that move the sizes it reports.
NextAttr ==
    \/ \E lk \in Answers(RemoteEntries) : Attr(lk)
    \/ \E req \in SetattrRequests({{"Size"}}, 0..MaxPos), lk \in Answers(RemoteEntries) :
        \E upd \in Outcomes(isOpen <= 0) : Setattr(req, lk, upd)
    \/ \E b \in Batches(MetaChunks) : AddChunks(b)
    \/ ClearEntry
    \/ Open
    \/ \E upd \in Outcomes(isOpen = 1 /\ dirtyMetadata) : Release(upd)

SpecAttr == Init /\ [][NextAttr]_vars

\* ------------------------------------------------------------------ the visible view
Covers(c, o) == c.Offset <= o /\ o < c.Offset + c.Size

CoveringChunks(chunks, o) == {chunks[i] : i \in {j \in 1..Len(chunks) : Covers(chunks[j], o)}}

\* The newest of a non-empty set of chunks under lessThan.
NewestOf(S) == CHOOSE c \in S : \A d \in S : d = c \/ lessThan(d, c)

\* The file ids the cache shows at offset o.
AttributedTo(cache, o) ==
    {cache[i].fileId : i \in {j \in 1..Len(cache) : cache[j].start <= o /\ o < cache[j].stop}}

NewestWins(chunks, cache) ==
    \A o \in 0..(MaxPos - 1) :
        CoveringChunks(chunks, o) # {} =>
            AttributedTo(cache, o) = {NewestOf(CoveringChunks(chunks, o)).FileKey}

\* ------------------------------------------------------------------ what a call worked on
\* The call recorded in l asked the remote service for the entry.
Asked(l) == l.calls # <<>> /\ l.calls[1].call = "LookupEntry"

\* The error of that lookup, "nil" when none was made or it succeeded.
LoadErr(l) == IF Asked(l) THEN l.calls[1].err ELSE "nil"

\* The entry the handler went on with: the looked-up one, else the cached one.
WorkedEntry(l) == IF Asked(l) THEN l.calls[1].entry ELSE entry

\* The call recorded in l sent the entry e in a remote UpdateEntry.
Updated(l, e) ==
    \E i \in 1..Len(l.calls) : l.calls[i].call = "UpdateEntry" /\ l.calls[i].entry = e

\* ------------------------------------------------------------------ claims
\* C1: after setEntry and any sequence of addChunks calls, every offset covered
\* by a chunk of the entry's list is attributed in the view cache to the newest
\* chunk covering it.
C1_NewestWinsAfterAppends ==
    entry # NoEntry => NewestWins(entry.Chunks, entryViewCache)

\* This step is a Setattr that truncates: it asks for a size below the file
\* size of the entry it works on.
SetattrTruncates ==
    /\ last'.op = "Setattr"
    /\ LoadErr(last') = "nil"
    /\ WorkedEntry(last') # NoEntry
    /\ "Size" \in last'.req.Valid
    /\ last'.req.Size < FileSize(WorkedEntry(last'))

\* The chunk list the truncation is said to leave: the chunks that start
\* below size, in order, the ones crossing size cut to end there.
ChunksBelow(chunks, size) ==
    LET Below(c) == c.Offset < size
        kept == SelectSeq(chunks, Below)
    IN [i \in 1..Len(kept) |->
            IF kept[i].Offset + kept[i].Size > size
            THEN [kept[i] EXCEPT !.Size = size - kept[i].Offset]
            ELSE kept[i]]

\* C2: a truncating Setattr leaves exactly the previous chunks whose offset is
\* below the new size, in order, the crossing ones cut, the others unchanged.
C2_TruncationKeepsChunksBelow ==
    [][SetattrTruncates =>
        entry'.Chunks = ChunksBelow(WorkedEntry(last').Chunks, last'.req.Size)]_vars

\* C3: after a truncating Setattr to size S every remaining chunk has a
\* positive size and ends at or below S, the view cache is the resolution of
\* the surviving list and shows nothing at or beyond S, and the recorded
\* size is S.
C3_TruncationResult ==
    [][SetattrTruncates =>
        LET S == last'.req.Size
        IN /\ \A i \in 1..Len(entry'.Chunks) :
                /\ entry'.Chunks[i].Size > 0
                /\ entry'.Chunks[i].Offset + entry'.Chunks[i].Size <= S
           /\ entryViewCache' = NonOverlappingVisibleIntervals(entry'.Chunks)
           /\ \A i \in 1..Len(entryViewCache') : entryViewCache'[i].stop <= S
           /\ entry'.FileSize = S]_vars

\* A truncating Setattr has cut a chunk and kept it.
C3_Witness ==
    /\ last.op = "Setattr"
    /\ \E i \in 1..Len(last.log) : last.log[i].line = "truncated chunk"
    /\ entry.Chunks # <<>>
    /\ entry.FileSize = last.req.Size

\* This step is an addChunks of a single chunk onto an entry.
AppendsOne ==
    /\ last'.op = "addChunks"
    /\ Len(last'.req.chunks) = 1
    /\ entry # NoEntry

\* C4: when addChunks gets a single chunk older than an existing chunk that
\* covers the same bytes, the view cache after the call attributes each such
\* byte to the newest existing chunk covering it, not to the incoming chunk.
C4_OlderAppendKeepsNewer ==
    [][AppendsOne =>
        LET a == last'.req.chunks[1]
        IN \A o \in 0..(MaxPos - 1) :
            (Covers(a, o) /\ \E c \in CoveringChunks(entry.Chunks, o) : lessThan(a, c))
                => AttributedTo(entryViewCache', o)
                        = {NewestOf(CoveringChunks(entry.Chunks, o)).FileKey}]_vars

\* An older single chunk was appended under a newer chunk that overlaps it.
C4_Witness ==
    /\ last.op = "addChunks"
    /\ Len(last.req.chunks) = 1
    /\ entry # NoEntry
    /\ Len(entry.Chunks) >= 2
    /\ entry.Chunks[Len(entry.Chunks)] = last.req.chunks[1]
    /\ \E i \in 1..(Len(entry.Chunks) - 1), o \in 0..(MaxPos - 1) :
            /\ lessThan(last.req.chunks[1], entry.Chunks[i])
            /\ Covers(entry.Chunks[i], o)
            /\ Covers(last.req.chunks[1], o)

\* C5: addChunks with an empty batch completes normally and changes neither
\* the chunk list, the view cache nor the cached reader.
C5_EmptyBatchIsNoOp ==
    [][(last'.op = "addChunks" /\ last'.req.chunks = <<>>) =>
        /\ last'.ret = "nil"
        /\ UNCHANGED <<entry, entryViewCache, reader>>]_vars

\* This step is a Setattr that changes an attribute of an entry.
SetattrChanges ==
    /\ last'.op = "Setattr"
    /\ last'.req.Valid \cap {"Size", "Mode", "Uid", "Gid", "Crtime", "Mtime"} # {}
    /\ LoadErr(last') = "nil"
    /\ WorkedEntry(last') # NoEntry

\* C6: a Setattr that changes size, mode, uid, gid, crtime or mtime sets the
\* dirty flag; with no handle open it sends the current entry in a remote
\* UpdateEntry before it returns; with a handle open it returns success
\* without any remote UpdateEntry and leaves the flag set.
C6_SetattrFlushTiming ==
    [][SetattrChanges =>
        /\ dirtyMetadata'
        /\ IF isOpen <= 0 THEN Updated(last', entry')
           ELSE last'.ret = "nil" /\ ~Called(last', "UpdateEntry")]_vars

\* A changing Setattr under an open handle returned without a flush.
C6_Witness ==
    /\ last.op = "Setattr"
    /\ last.req.Valid # {}
    /\ entry # NoEntry
    /\ isOpen > 0
    /\ dirtyMetadata
    /\ last.ret = "nil"
    /\ ~Called(last, "UpdateEntry")

\* The call recorded in l made a remote UpdateEntry that answered upd.
UpdateAnswered(l, upd) ==
    \E i \in 1..Len(l.calls) : l.calls[i].call = "UpdateEntry" /\ l.calls[i].err = upd

\* C7: when the remote UpdateEntry of a Setattr's flush fails, Setattr returns
\* EIO, the dirty flag is still set and the mirror is not updated; the mirror
\* is updated only by a flush whose remote call succeeded.
C7_FailedFlush ==
    [][/\ (last'.op = "Setattr" /\ UpdateAnswered(last', "fail")) =>
            /\ last'.ret = "EIO"
            /\ dirtyMetadata'
            /\ metaCache' = metaCache
            /\ ~Called(last', "metaCache.UpdateEntry")
       /\ (metaCache' # metaCache \/ Called(last', "metaCache.UpdateEntry")) =>
            /\ UpdateAnswered(last', "ok")
            /\ Updated(last', metaCache')]_vars

\* A Setattr's flush has failed, and the mirror does not hold the entry.
C7_Witness ==
    /\ last.op = "Setattr"
    /\ UpdateAnswered(last, "fail")
    /\ last.ret = "EIO"
    /\ dirtyMetadata
    /\ metaCache # entry

\* This step is a Setxattr or Removexattr that changes the xattrs of an entry.
XattrMutates ==
    /\ last'.op \in {"Setxattr", "Removexattr"}
    /\ LoadErr(last') = "nil"
    /\ WorkedEntry(last') # NoEntry
    /\ last'.op = "Removexattr" =>
            \E x \in WorkedEntry(last').Extended : x.name = last'.req.Name

\* C8: a Setxattr or Removexattr that mutates the xattrs sets the dirty flag
\* and sends the mutated entry in a remote UpdateEntry within the same call.
C8_XattrMarksDirtyAndFlushes ==
    [][XattrMutates => dirtyMetadata' /\ Updated(last', entry')]_vars

\* C9: Attr returns ENOENT, not a zero-valued attribute record, when the node
\* has no cached entry and a handle is open or the lookup finds no entry; a
\* lookup error is returned as it is.
C9_AttrNotFound ==
    [][last'.op = "Attr" =>
        /\ (entry = NoEntry /\ (isOpen > 0 \/ (LoadErr(last') = "nil"
                                               /\ WorkedEntry(last') = NoEntry)))
                => last'.ret = "ENOENT"
        /\ LoadErr(last') # "nil" => last'.ret = LoadErr(last')
        /\ last'.ret = "nil" => last'.attr # NoAttr]_vars

\* Attr found neither a cached entry nor, the file being open, asked for one.
C9_Witness ==
    /\ last.op = "Attr"
    /\ last.ret = "ENOENT"
    /\ last.attr = NoAttr
    /\ entry = NoEntry
    /\ isOpen > 0

\* C10: with a handle open and a cached entry, Attr reports the entry's
\* recorded size and asks nothing of the remote service; with no handle open
\* it reports the file size of the entry, which it first looks up when the
\* node has no cached entry or the cached one carries a hard-link id.
C10_AttrSize ==
    [][last'.op = "Attr" =>
        /\ (isOpen > 0 /\ entry # NoEntry) =>
                /\ last'.ret = "nil"
                /\ last'.attr.Size = entry.FileSize
                /\ last'.calls = <<>>
        /\ isOpen <= 0 =>
                /\ (entry = NoEntry \/ Len(entry.HardLinkId) > 0) => Asked(last')
                /\ last'.ret = "nil" =>
                        last'.attr.Size = FileSize(WorkedEntry(last'))]_vars

\* Attr under an open handle reported a recorded size below the chunks' extent.
C10_Witness ==
    /\ last.op = "Attr"
    /\ last.ret = "nil"
    /\ isOpen > 0
    /\ entry # NoEntry
    /\ last.attr.Size = entry.FileSize
    /\ entry.FileSize < FileSize(entry)

\* ------------------------------------------------------------------ the eviction view
\* Forget among opens, releases and the operations that cache and drop the
\* reader.
NextForget ==
    \/ \E e \in RemoteEntries : SetEntry(e)
    \/ ClearEntry
    \/ CreateReader
    \/ \E b \in Batches(MetaChunks) : AddChunks(b)
    \/ Open
    \/ \E upd \in Outcomes(FALSE) : Release(upd)
    \/ Forget

SpecForget == Init /\ [][NextForget]_vars

\* ------------------------------------------------------------------ operations step by step
\* setEntry, clearEntry, addChunks, Forget and the Setattr of a size under an
\* open handle, run by the processes of Procs one statement at a time.  A
\* process holds the entry it fetched as a pointer: when another process
\* stores a new entry in the node, the holder goes on with the detached one.
file == <<entry, entryViewCache, isOpen, reader, dirtyMetadata, metaCache, last>>

Locals(op, arg) ==
    [op |-> op, arg |-> arg, ent |-> "none", detached |-> NoEntry,
     chunks |-> <<>>, newChunks |-> <<>>, r |-> "none"]

\* The entry the pointer of p leads to.
EntryOf(p) == IF locals[p].ent = "current" THEN entry ELSE locals[p].detached

Goto(p, label) == pc' = [pc EXCEPT ![p] = label]

Begin(p, op, arg, label) ==
    /\ pc[p] = "idle"
    /\ Goto(p, label)
    /\ locals' = [locals EXCEPT ![p] = Locals(op, arg)]
    /\ UNCHANGED <<file, mount, entryLock, fhLock, closed>>

Return(p) ==
    /\ Goto(p, "idle")
    /\ locals' = [locals EXCEPT ![p] = NoLocals]

\* setEntry and clearEntry: Lock, the entry, the view cache, setReader(nil),
\* the deferred Unlock.
BeginSetEntry(p, e) == Begin(p, "setEntry", e, "lock")

BeginClearEntry(p) == Begin(p, "clearEntry", NoEntry, "lock")

LockEntry(p) ==
    /\ pc[p] = "lock"
    /\ entryLock = 0
    /\ entryLock' = p
    /\ Goto(p, "entry")
    /\ UNCHANGED <<file, mount, fhLock, locals, closed>>

WriteEntry(p) ==
    /\ pc[p] = "entry"
    /\ entry' = locals[p].arg
    /\ locals' = [q \in Procs |->
                    IF q # p /\ pc[q] # "idle" /\ locals[q].ent = "current"
                    THEN [locals[q] EXCEPT !.ent = "detached", !.detached = entry]
                    ELSE locals[q]]
    /\ Goto(p, "cache")
    /\ UNCHANGED <<entryViewCache, isOpen, reader, dirtyMetadata, metaCache, last,
                   mount, entryLock, fhLock, closed>>

WriteCache(p) ==
    /\ pc[p] = "cache"
    /\ entryViewCache' = (IF locals[p].arg = NoEntry THEN <<>>
                           ELSE NonOverlappingVisibleIntervals(locals[p].arg.Chunks))
    /\ Goto(p, "sr_read")
    /\ UNCHANGED <<entry, isOpen, reader, dirtyMetadata, metaCache, last,
                   mount, entryLock, fhLock, locals, closed>>

UnlockEntry(p) ==
    /\ pc[p] = "unlock"
    /\ entryLock' = 0
    /\ Return(p)
    /\ UNCHANGED <<file, mount, fhLock, closed>>

\* setReader(nil): r := file.reader, then Close on a cached reader and the
\* store of nil.
AfterSetReader(op) ==
    CASE op \in {"setEntry", "clearEntry"} -> "unlock"
      [] op = "addChunks" -> "ac_append"
      [] op = "Setattr" -> "sa_size"
      [] op = "Forget" -> "idle"

ReadReader(p) ==
    /\ pc[p] = "sr_read"
    /\ locals' = [locals EXCEPT ![p].r = reader]
    /\ Goto(p, "sr_close")
    /\ UNCHANGED <<file, mount, entryLock, fhLock, closed>>

CloseReader(p) ==
    /\ pc[p] = "sr_close"
    /\ closed' = (IF locals[p].r # "nil" THEN closed + 1 ELSE closed)
    /\ reader' = "nil"
    /\ IF AfterSetReader(locals[p].op) = "idle" THEN Return(p)
       ELSE Goto(p, AfterSetReader(locals[p].op)) /\ UNCHANGED locals
    /\ UNCHANGED <<entry, entryViewCache, isOpen, dirtyMetadata, metaCache, last,
                   mount, entryLock, fhLock>>

\* addChunks: the horizon, getEntry, the pick and sort, the merge into the
\* view cache, setReader(nil), the append to the entry's list.
BeginAddChunks(p, batch) ==
    /\ batch.chunks # <<>>
    /\ Begin(p, "addChunks", batch, "ac_get")

GetEntry(p) ==
    /\ pc[p] = "ac_get"
    /\ entryLock = 0
    /\ IF entry = NoEntry THEN Return(p)
       ELSE Goto(p, "ac_pick") /\ locals' = [locals EXCEPT ![p].ent = "current"]
    /\ UNCHANGED <<file, mount, entryLock, fhLock, closed>>

PickAndSort(p) ==
    /\ pc[p] = "ac_pick"
    /\ LET newChunks == locals[p].arg.chunks
           chunks == SortChunks(newChunks \o
                        PickOutOfOrder(EarliestChunk(newChunks), EntryOf(p).Chunks))
       IN locals' = [locals EXCEPT
                        ![p].chunks = chunks,
                        ![p].newChunks =
                            NewChunksAfterSort(newChunks, locals[p].arg.cap, chunks)]
    /\ Goto(p, "ac_merge")
    /\ UNCHANGED <<file, mount, entryLock, fhLock, closed>>

MergeChunks(p) ==
    /\ pc[p] = "ac_merge"
    /\ entryViewCache' = MergeAll(entryViewCache, locals[p].chunks)
    /\ Goto(p, "sr_read")
    /\ UNCHANGED <<entry, isOpen, reader, dirtyMetadata, metaCache, last,
                   mount, entryLock, fhLock, locals, closed>>

AppendChunks(p) ==
    /\ pc[p] = "ac_append"
    /\ IF locals[p].ent = "current"
       THEN entry' = [entry EXCEPT !.Chunks = @ \o locals[p].newChunks]
       ELSE UNCHANGED entry
    /\ Return(p)
    /\ UNCHANGED <<entryViewCache, isOpen, reader, dirtyMetadata, metaCache, last,
                   mount, entryLock, fhLock, closed>>

\* Forget: DeleteFsNode, ReleaseHandle, setReader(nil).
BeginForget(p) == Begin(p, "Forget", NoReq, "fg_delete")

EvictNode(p) ==
    /\ pc[p] = "fg_delete"
    /\ fsNodeCache' = DeleteFsNode(fsNodeCache)
    /\ Goto(p, "fg_release")
    /\ UNCHANGED <<file, handles, entryLock, fhLock, locals, closed>>

ReleaseHandles(p) ==
    /\ pc[p] = "fg_release"
    /\ handles' = ReleaseHandle(handles, isOpen)
    /\ Goto(p, "sr_read")
    /\ UNCHANGED <<file, fsNodeCache, entryLock, fhLock, locals, closed>>

\* Setattr of a size under an open handle: maybeLoadEntry returns the cached
\* entry, the file handle is locked, the size branch runs, the deferred
\* Unlock comes with the return.
HandleLocked_Never(open, held) == FALSE

\* "if file.isOpen > 0 ... if fileHandle != nil { fileHandle.Lock() }"
HandleLocked(open, held) == open > 0 /\ held

BeginSetattr(p, size) ==
    /\ isOpen > 0
    /\ Begin(p, "Setattr", size, "sa_load")

LoadEntry(p) ==
    /\ pc[p] = "sa_load"
    /\ entryLock = 0
    /\ IF entry = NoEntry THEN Return(p)   \* len(entry.Chunks) of a nil entry
       ELSE Goto(p, "sa_lock") /\ locals' = [locals EXCEPT ![p].ent = "current"]
    /\ UNCHANGED <<file, mount, entryLock, fhLock, closed>>

LockHandle(p) ==
    /\ pc[p] = "sa_lock"
    /\ IF HandleLocked(isOpen, handles)
       THEN fhLock = 0 /\ fhLock' = p
       ELSE UNCHANGED fhLock
    /\ Goto(p, "sa_loop")
    /\ UNCHANGED <<file, mount, entryLock, locals, closed>>

\* The loop over entry.Chunks: a chunk that is kept is cut in place, so the
\* cut shows in every slice that holds the chunk.
TruncateLoop(p) ==
    /\ pc[p] = "sa_loop"
    /\ LET e == EntryOf(p)
           S == locals[p].arg
           Cut(c) == IF c.Offset + c.Size > S /\ S - c.Offset > 0
                     THEN [c EXCEPT !.Size = S - c.Offset] ELSE c
           CutIn(list) == [i \in 1..Len(list) |->
                            IF list[i].FileKey \in Keys(e.Chunks) THEN Cut(list[i])
                            ELSE list[i]]
           shares(q) == /\ q # p /\ pc[q] # "idle"
                        /\ locals[q].ent = "current" /\ locals[p].ent = "current"
       IN IF S < FileSize(e)
          THEN /\ Goto(p, "sa_chunks")
               /\ IF locals[p].ent = "current"
                  THEN entry' = [entry EXCEPT !.Chunks = CutIn(@)]
                  ELSE UNCHANGED entry
               /\ locals' = [q \in Procs |->
                    IF q = p
                    THEN [locals[p] EXCEPT
                            !.chunks = TruncateChunks(e.Chunks, S),
                            !.detached = IF locals[p].ent = "current" THEN @
                                         ELSE [@ EXCEPT !.Chunks = CutIn(@)]]
                    ELSE IF shares(q)
                    THEN [locals[q] EXCEPT !.chunks = CutIn(@), !.newChunks = CutIn(@)]
                    ELSE locals[q]]
          ELSE /\ Goto(p, "sa_size")
               /\ UNCHANGED <<entry, locals>>
    /\ UNCHANGED <<entryViewCache, isOpen, reader, dirtyMetadata, metaCache, last,
                   mount, entryLock, fhLock, closed>>

WriteChunks(p) ==
    /\ pc[p] = "sa_chunks"
    /\ IF locals[p].ent = "current"
       THEN entry' = [entry EXCEPT !.Chunks = locals[p].chunks] /\ UNCHANGED locals
       ELSE /\ locals' = [locals EXCEPT ![p].detached.Chunks = locals[p].chunks]
            /\ UNCHANGED entry
    /\ Goto(p, "sa_cache")
    /\ UNCHANGED <<entryViewCache, isOpen, reader, dirtyMetadata, metaCache, last,
                   mount, entryLock, fhLock, closed>>

WriteViewCache(p) ==
    /\ pc[p] = "sa_cache"
    /\ entryViewCache' = NonOverlappingVisibleIntervals(locals[p].chunks)
    /\ Goto(p, "sr_read")
    /\ UNCHANGED <<entry, isOpen, reader, dirtyMetadata, metaCache, last,
                   mount, entryLock, fhLock, locals, closed>>

WriteSize(p) ==
    /\ pc[p] = "sa_size"
    /\ IF locals[p].ent = "current"
       THEN entry' = [entry EXCEPT !.FileSize = locals[p].arg] /\ UNCHANGED locals
       ELSE /\ locals' = [locals EXCEPT ![p].detached.FileSize = locals[p].arg]
            /\ UNCHANGED entry
    /\ dirtyMetadata' = TRUE
    /\ Goto(p, "sa_ret")
    /\ UNCHANGED <<entryViewCache, isOpen, reader, metaCache, last,
                   mount, entryLock, fhLock, closed>>

ReturnSetattr(p) ==
    /\ pc[p] = "sa_ret"
    /\ fhLock' = (IF fhLock = p THEN 0 ELSE fhLock)
    /\ Return(p)
    /\ UNCHANGED <<file, mount, entryLock, closed>>

\* The read path caches a new reader; none of the processes is inside an
\* operation, so none holds the reader cached before.
CacheReader ==
    /\ \A p \in Procs : pc[p] = "idle"
    /\ entry # NoEntry
    /\ reader = "nil"
    /\ reader' = "reader"
    /\ closed' = 0
    /\ UNCHANGED <<entry, entryViewCache, isOpen, dirtyMetadata, metaCache, last,
                   mount, entryLock, fhLock, pc, locals>>

\* ------------------------------------------------------------------ the truncation race
\* Setattr calls of sizes through the handles of the processes, on an entry
\* whose chunks lie inside its size.
TruncateEntries ==
    {MkEntry(b, MaxPos, <<>>) : b \in BatchesOf(Chunks(MaxKeys), 2)}

InitTruncate ==
    /\ entry \in TruncateEntries
    /\ entryViewCache = NonOverlappingVisibleIntervals(entry.Chunks)
    /\ isOpen = Cardinality(Procs)
    /\ reader = "reader"
    /\ dirtyMetadata = FALSE
    /\ metaCache = NoEntry
    /\ last = Call("Open", NoReq, "nil", <<>>, NoAttr)
    /\ fsNodeCache = TRUE
    /\ handles = TRUE
    /\ Quiet

SetattrSteps(p) ==
    \/ LoadEntry(p)
    \/ LockHandle(p)
    \/ TruncateLoop(p)
    \/ WriteChunks(p)
    \/ WriteViewCache(p)
    \/ WriteSize(p)
    \/ ReturnSetattr(p)

NextTruncate ==
    \/ \E p \in Procs, size \in 0..MaxPos : BeginSetattr(p, size)
    \/ \E p \in Procs : SetattrSteps(p)
    \/ \E p \in Procs : ReadReader(p)
    \/ \E p \in Procs : CloseReader(p)

SpecTruncate == InitTruncate /\ [][NextTruncate]_vars

\* ------------------------------------------------------------------ the racing view
\* Every step-by-step operation, on a node with a chunk, a cached reader and
\* an open handle per process.
RaceEntries == {MkEntry(<<c>>, MaxPos, <<>>) : c \in MetaChunks}

RaceBatches ==
    {[chunks |-> <<c>>, cap |-> 1] :
        c \in {d \in Fresh(Chunks(MaxKeys)) : d.Offset = 0 /\ d.Size = MaxPos}}

InitRace ==
    /\ entry \in RaceEntries
    /\ entryViewCache = NonOverlappingVisibleIntervals(entry.Chunks)
    /\ isOpen = Cardinality(Procs)
    /\ reader = "reader"
    /\ dirtyMetadata = FALSE
    /\ metaCache = NoEntry
    /\ last = Call("Open", NoReq, "nil", <<>>, NoAttr)
    /\ fsNodeCache = TRUE
    /\ handles = TRUE
    /\ Quiet

NextRace ==
    \/ \E p \in Procs, e \in RaceEntries : BeginSetEntry(p, e)
    \/ \E p \in Procs : BeginClearEntry(p)
    \/ \E p \in Procs, b \in RaceBatches : BeginAddChunks(p, b)
    \/ \E p \in Procs : BeginForget(p)
    \/ \E p \in Procs, size \in {MaxPos - 1} : BeginSetattr(p, size)
    \/ \E p \in Procs : LockEntry(p)
    \/ \E p \in Procs : WriteEntry(p)
    \/ \E p \in Procs : WriteCache(p)
    \/ \E p \in Procs : UnlockEntry(p)
    \/ \E p \in Procs : GetEntry(p)
    \/ \E p \in Procs : PickAndSort(p)
    \/ \E p \in Procs : MergeChunks(p)
    \/ \E p \in Procs : AppendChunks(p)
    \/ \E p \in Procs : EvictNode(p)
    \/ \E p \in Procs : ReleaseHandles(p)
    \/ \E p \in Procs : SetattrSteps(p)
    \/ \E p \in Procs : ReadReader(p)
    \/ \E p \in Procs : CloseReader(p)
    \/ CacheReader

SpecRace == InitRace /\ [][NextRace]_vars

\* The handlers that go through maybeLoadEntry before they use the entry.
LoadingOps == {"Attr", "Getxattr", "Setxattr", "Removexattr", "Listxattr", "Setattr"}

\* C11: every Attr, Getxattr, Setxattr, Removexattr, Listxattr and Setattr on
\* a node whose cached entry carries a hard-link id looks the entry up at the
\* remote service, whatever the open count.
C11_HardLinkAlwaysReloaded ==
    [][(/\ last'.op \in LoadingOps
        /\ entry # NoEntry
        /\ entry.HardLinkId # <<>>) => Asked(last')]_vars

\* The Close calls the call recorded in l made to the reader.
Closes(l) == Cardinality({i \in 1..Len(l.calls) : l.calls[i].call = "reader.Close"})

\* C12: Forget does not remove the node from the node cache while the node's
\* open count is above zero.
C12_NoEvictionWhileOpen ==
    [][(last'.op = "Forget" /\ isOpen > 0 /\ fsNodeCache) => fsNodeCache']_vars

\* C13: after Forget the node cache no longer resolves the path, no reader is
\* cached, and a reader that was cached got exactly one Close: a Forget that
\* finds no reader closes nothing.
C13_ForgetReleases ==
    [][last'.op = "Forget" =>
        /\ ~fsNodeCache'
        /\ reader' = "nil"
        /\ Closes(last') = (IF reader = "nil" THEN 0 ELSE 1)]_vars

\* A Forget has closed the cached reader and evicted the node.
C13_Witness ==
    /\ last.op = "Forget"
    /\ Closes(last) = 1
    /\ reader = "nil"
    /\ ~fsNodeCache

\* This step is a Setattr of a size at or above the file size of the entry it
\* works on.
SetattrGrows ==
    /\ last'.op = "Setattr"
    /\ LoadErr(last') = "nil"
    /\ WorkedEntry(last') # NoEntry
    /\ "Size" \in last'.req.Valid
    /\ last'.req.Size >= FileSize(WorkedEntry(last'))

\* C16: a Setattr of a size at or above the current file size records the
\* size and leaves the chunk list, the view cache and the cached reader as
\* they were (as the reload left them, when the call reloaded the entry).
C16_GrowIsMetadataOnly ==
    [][SetattrGrows =>
        /\ entry'.FileSize = last'.req.Size
        /\ entry'.Chunks = WorkedEntry(last').Chunks
        /\ entryViewCache' = (IF Asked(last')
                               THEN NonOverlappingVisibleIntervals(entry'.Chunks)
                               ELSE entryViewCache)
        /\ reader' = (IF Asked(last') THEN "nil" ELSE reader)]_vars

\* A Setattr has set a size with chunks in the list and the reader still
\* cached: the size was not below the file size.
C16_Witness ==
    /\ last.op = "Setattr"
    /\ "Size" \in last.req.Valid
    /\ entry # NoEntry
    /\ entry.FileSize = last.req.Size
    /\ entry.Chunks # <<>>
    /\ reader = "reader"

\* This step is an addChunks of a non-empty batch onto an entry.
AppendsBatch ==
    /\ last'.op = "addChunks"
    /\ last'.req.chunks # <<>>
    /\ entry # NoEntry

\* The oldest chunk of a non-empty sequence under lessThan.
OldestOf(chunks) ==
    CHOOSE c \in {chunks[i] : i \in 1..Len(chunks)} :
        \A i \in 1..Len(chunks) : chunks[i] = c \/ lessThan(c, chunks[i])

\* C17: the chunk addChunks takes as the merge horizon is the oldest chunk of
\* the batch, and every existing chunk newer than it is picked into the set
\* that is sorted and merged.
C17_HorizonIsOldest ==
    [][AppendsBatch =>
        LET horizon == EarliestChunk(last'.req.chunks)
            Newer(c) == lessThan(OldestOf(last'.req.chunks), c)
        IN /\ horizon = OldestOf(last'.req.chunks)
           /\ PickOutOfOrder(horizon, entry.Chunks) = SelectSeq(entry.Chunks, Newer)]_vars

\* How many times c occurs in the sequence chunks.
Count(chunks, c) == Cardinality({i \in 1..Len(chunks) : chunks[i] = c})

\* C18: addChunks with a non-empty batch on a node with an entry leaves the
\* previous chunk list followed by the incoming chunks, each as many times as
\* the batch holds it.
C18_AppendsIncoming ==
    [][AppendsBatch =>
        LET n == Len(entry.Chunks)
            batch == last'.req.chunks
            tail == SubSeq(entry'.Chunks, n + 1, Len(entry'.Chunks))
        IN /\ Len(entry'.Chunks) = n + Len(batch)
           /\ SubSeq(entry'.Chunks, 1, n) = entry.Chunks
           /\ \A i \in 1..Len(batch) : Count(tail, batch[i]) = Count(batch, batch[i])
           /\ \A i \in 1..Len(tail) : Count(batch, tail[i]) > 0]_vars

\* An addChunks has picked an existing chunk into the slice of the incoming
\* batch, which had room for it, and sorted the two together.
C18_Witness ==
    /\ last.op = "addChunks"
    /\ last.req.chunks # <<>>
    /\ entry # NoEntry
    /\ LET n == Len(entry.Chunks) - Len(last.req.chunks)
           picked == {i \in 1..n :
                        lessThan(EarliestChunk(last.req.chunks), entry.Chunks[i])}
       IN /\ picked # {}
          /\ last.req.cap >= Len(last.req.chunks) + Cardinality(picked)

\* This step is a Setattr with no handle open on a node that was already
\* dirty, which gets past the load with an entry.
SetattrOnDirty ==
    /\ last'.op = "Setattr"
    /\ dirtyMetadata
    /\ isOpen <= 0
    /\ LoadErr(last') = "nil"
    /\ WorkedEntry(last') # NoEntry

\* C20: no operation resets the dirty flag, so every Setattr with no handle
\* open on a dirty node sends a remote UpdateEntry with the entry, also when
\* it changes no attribute and also after a flush, failed or successful.
C20_DirtyNeverReset ==
    [][/\ dirtyMetadata => dirtyMetadata'
       /\ SetattrOnDirty => Updated(last', entry')]_vars

\* A Setattr that changes nothing has flushed a node that an earlier Setattr
\* left dirty.
C20_Witness ==
    /\ last.op = "Setattr"
    /\ last.req.Valid = {}
    /\ dirtyMetadata
    /\ entry # NoEntry
    /\ Updated(last, entry)

\* C14: every step that writes the node's entry, the entry's chunk list or
\* the view cache is taken by a process that holds the entry lock
\* exclusively.
C14_WritesHoldEntryLock ==
    [][(entry' # entry \/ entryViewCache' # entryViewCache) =>
        \E p \in Procs : pc'[p] # pc[p] /\ entryLock = p]_vars

\* C15: once the Setattr calls running through the open handles have all
\* returned, the view cache is the resolution of the entry's chunk list and
\* no chunk extends past the entry's size.
C15_TruncationsLeaveCoverage ==
    (\A p \in Procs : pc[p] = "idle") =>
        /\ entryViewCache = NonOverlappingVisibleIntervals(entry.Chunks)
        /\ \A i \in 1..Len(entry.Chunks) :
                entry.Chunks[i].Offset + entry.Chunks[i].Size <= entry.FileSize

\* One truncation holds the handle's lock, its chunk list written and its
\* cache not yet, while another truncation waits for the lock.
C15_Witness ==
    \E p, q \in Procs :
        /\ p # q
        /\ pc[p] = "sa_cache"
        /\ fhLock = p
        /\ pc[q] = "sa_lock"
        /\ locals[q].arg < locals[p].arg
        /\ entry.Chunks # <<>>

\* C19: the reader that was cached gets at most one Close, however Forget
\* and the operations that drop the reader interleave.
C19_ReaderClosedOnce == closed <= 1
====
